---- MODULE Spec2Model ----
(***************************************************************************)
(* Model of app.py of the Crypto-Trading-Bot: the main loop, the buy and   *)
(* sell strategies, the buy()/sell() order placement and the get_order     *)
(* polling state machine.  The exchange client (Bittrex), the notifier     *)
(* (Messenger) and the ledger (Database) are collaborators; the exchange   *)
(* answers nondeterministically.  Time advances only in time.sleep: a      *)
(* status query, a placement and a cancel take no time-units.              *)
(***************************************************************************)
EXTENDS Integers, Sequences, FiniteSets, TLC

(* ------------------------------ bounds --------------------------------- *)
NumMarkets == 2        \* markets returned by get_markets("BTC")
MaxOrders == 3         \* orders the exchange accepts in one run
MaxClock == 130        \* last time-unit at which a sleep may end
MaxCloses == 17        \* longest closing-price history given to calculate_RSI
MaxBumps == 2          \* closes of a history that lie off its trend line

(* ------------------------- program constants --------------------------- *)
None == -1                               \* Python None for an absent number
trade_time_limit == 2                    \* minutes, default of buy()/sell()
PollInterval == 10                       \* time.sleep(10) in get_order
SleepInterval == 10                      \* time.sleep(10) in the main loop
btcAmount == 8                           \* buy_params["btcAmount"]
buyRsiThreshold == 30                    \* buy_params["rsiThreshold"]
buyVolumeThreshold == 500                \* buy_params["24HourVolumeThreshold"]
minimumUnitPrice == 1                    \* buy_params["minimumUnitPrice"]
sellRsiThreshold == 70                   \* sell_params["rsiThreshold"]
minProfitMarginThreshold == 0            \* sell_params["minProfitMargin..."]
profitMarginThreshold == 50              \* sell_params["profitMarginThreshold"]
NoBuyRsi == 50                           \* rsi <= 50 prints a no-buy line

(* ----------------------- values the exchange returns ------------------- *)
btc_coin_pairs == [i \in 1..NumMarkets |-> i]      \* the market universe
Markets == {btc_coin_pairs[i] : i \in 1..NumMarkets}
RSIValues == {None, 20, 40, 80}          \* calculate_RSI results
Volumes == {None, 400, 500}              \* get_current_24hr_volume results
AskPrices == {None, 1, 2}                \* get_current_price(pair, "ask")
BidPrices == {None, 2, 3, 4}             \* get_current_price(pair, "bid")
ExchangeErrors == {"ConnectionError", "JSONDecodeError", "KeyError",
                   "ValueError", "Exception"}

Range(s) == {s[i] : i \in 1..Len(s)}

VARIABLES
    asMain,            \* TRUE: run as __main__; FALSE: functions called directly
    pc,                \* position of the single thread
    idx,               \* index of the for loop being executed
    clock,             \* time.time()
    trackedCoinPairs,  \* Database.trades["trackedCoinPairs"]
    trades,            \* the open positions, by market
    order,             \* the order lifecycle of the current buy()/sell()
    nextUuid,          \* exchange: the next order id
    exc,               \* the exception propagating to the main loop
    handled,           \* the error the main loop printed before this cycle
    last,              \* what the step just taken did for its market
    buy_params,        \* trade_params["buy"] of secrets.json
    sell_params,       \* trade_params["sell"] of secrets.json
    call,              \* a function of the module called on its own: arguments
    result             \* ... and what it returned

vars == <<asMain, pc, idx, clock, trackedCoinPairs, trades, order, nextUuid,
          exc, handled, last, buy_params, sell_params, call, result>>

\* what the main loop and the order lifecycle never write
config == <<buy_params, sell_params, call, result>>

NoTrade == [quantity |-> 0, price |-> 0]
NoData == [IsOpen |-> FALSE, seq |-> 0]
NoOrder == [uuid |-> 0, side |-> "none", market |-> 0, price |-> 0,
            quantity |-> 0, held |-> NoTrade,
            limit |-> 0, state |-> "none", start |-> 0, end |-> 0,
            data |-> NoData, asked |-> 0, replied |-> FALSE, cancels |-> 0,
            ack |-> "none", ret |-> NoData]
NoHandled == [kind |-> "none", at |-> 0]
NoLast == [market |-> 0, side |-> "none", evaluated |-> FALSE,
           summaryFailed |-> FALSE, placement |-> "none", note |-> "none"]

NoCall == [fn |-> "none"]
NoResult == [done |-> FALSE]

\* secrets.json as the runs of the main loop have it
DefaultBuyParams ==
    [rsiThreshold |-> buyRsiThreshold,
     volumeThreshold |-> buyVolumeThreshold,
     minimumUnitPrice |-> minimumUnitPrice,
     btcAmount |-> btcAmount]
DefaultSellParams ==
    [rsiThreshold |-> sellRsiThreshold,
     minProfitMarginThreshold |-> minProfitMarginThreshold,
     profitMarginThreshold |-> profitMarginThreshold]

Init ==
    /\ buy_params = DefaultBuyParams
    /\ sell_params = DefaultSellParams
    /\ call = NoCall
    /\ result = NoResult
    /\ asMain \in BOOLEAN
    /\ pc = IF asMain THEN "loop" ELSE "idle"
    /\ idx = 0
    /\ clock = 0
    /\ trackedCoinPairs = <<>>
    /\ trades = [m \in Markets |-> NoTrade]
    /\ order = NoOrder
    /\ nextUuid = 1
    /\ exc = "none"
    /\ handled = NoHandled
    /\ last = NoLast

(* --------------------------- pure helpers ------------------------------ *)

\* buy()/sell() pass trade_time_limit * 60 to get_order
SecondsMinutes(minutes) == minutes
Seconds(minutes) == minutes * 60

\* buy_strategy line 297, sell_strategy line 314: coin_pair in trackedCoinPairs
AlreadyTrackedNever(coin_pair, tracked) == FALSE
AlreadyTrackedAlways(coin_pair, tracked) == TRUE
AlreadyTracked(coin_pair, tracked) == coin_pair \in Range(tracked)

\* check_buy_parameters: Python's short-circuit `and`; comparing None with a
\* number raises TypeError
check_buy_parametersInclusive(rsi, day_volume, current_buy_price) ==
    IF rsi = None THEN "False"
    ELSE IF ~(rsi <= buy_params.rsiThreshold) THEN "False"
    ELSE IF day_volume = None THEN "TypeError"
    ELSE IF ~(day_volume >= buy_params.volumeThreshold) THEN "False"
    ELSE IF current_buy_price = None THEN "TypeError"
    ELSE IF current_buy_price >= buy_params.minimumUnitPrice THEN "True"
    ELSE "False"
check_buy_parameters(rsi, day_volume, current_buy_price) ==
    IF rsi = None THEN "False"
    ELSE IF ~(rsi <= buy_params.rsiThreshold) THEN "False"
    ELSE IF day_volume = None THEN "TypeError"
    ELSE IF ~(day_volume >= buy_params.volumeThreshold) THEN "False"
    ELSE IF current_buy_price = None THEN "TypeError"
    ELSE IF current_buy_price > buy_params.minimumUnitPrice THEN "True"
    ELSE "False"

\* check_sell_parameters; profit_margin is a number here
check_sell_parametersInclusive(rsi, profit_margin) ==
    \/ (rsi # None /\ rsi >= sell_params.rsiThreshold
                   /\ profit_margin > sell_params.minProfitMarginThreshold)
    \/ profit_margin >= sell_params.profitMarginThreshold
check_sell_parameters(rsi, profit_margin) ==
    \/ (rsi # None /\ rsi >= sell_params.rsiThreshold
                   /\ profit_margin > sell_params.minProfitMarginThreshold)
    \/ profit_margin > sell_params.profitMarginThreshold

\* Database.get_profit_margin: (bid - buyPrice) / buyPrice, in percent; the
\* prices of the model make the division exact
get_profit_margin(buy_price, current_sell_price) ==
    ((current_sell_price - buy_price) * 100) \div buy_price

\* `if not buy_data["success"]` / `if not sell_data["success"]`
PlacementOkAlways(data) == TRUE
PlacementOk(data) == data.success

\* the while condition of get_order
LoopCond(now, start_time, limit, order_data) ==
    now - start_time <= limit /\ order_data.IsOpen

\* `order_data = Bittrex.get_order(order_uuid)` inside the loop
PollUpdateStale(old, new) == old
PollUpdate(old, new) == new

\* `if order_data["result"]["IsOpen"]` after the loop
ShouldCancelOnDeadline(order_data, now, start_time, limit) ==
    order_data.IsOpen \/ now - start_time > limit
ShouldCancel(order_data, now, start_time, limit) == order_data.IsOpen

\* the except clauses of the main loop that call exit()
IsFatalWithTypeError(kind) ==
    kind \notin {"ConnectionError", "JSONDecodeError"}
IsFatal(kind) ==
    kind \notin {"ConnectionError", "JSONDecodeError", "TypeError"}

\* Database.store_initial_buy: records the order id of the pending buy; no
\* OpenPosition exists before the order fills
store_initial_buy(tracked, coin_pair) == tracked

\* Database.store_buy: putOpenPosition
store_buy_tracked(tracked, coin_pair) ==
    IF coin_pair \in Range(tracked) THEN tracked ELSE Append(tracked, coin_pair)
store_buy_trades(t, coin_pair, quantity, price) ==
    [t EXCEPT ![coin_pair] = [quantity |-> quantity, price |-> price]]

\* Database.store_sell: removeOpenPosition
store_sell_tracked(tracked, coin_pair) ==
    SelectSeq(tracked, LAMBDA c : c # coin_pair)
store_sell_trades(t, coin_pair) == [t EXCEPT ![coin_pair] = NoTrade]

(* ------------------------- control-flow helpers ------------------------ *)

Goto(p) == pc' = p[1] /\ idx' = p[2]

\* analyse_sells: the for loop over trackedCoinPairs starts
SellsEntry(tracked) ==
    IF Len(tracked) >= 1 THEN <<"sells", 1>> ELSE <<"sleep", 0>>

\* buy_strategy returns: next iteration of analyse_buys, or analyse_sells
BuyReturn(tracked) ==
    IF ~asMain THEN <<"idle", 0>>
    ELSE IF idx < Len(btc_coin_pairs) THEN <<"buys", idx + 1>>
    ELSE SellsEntry(tracked)

\* sell_strategy returns: the list iterator of analyse_sells advances over
\* the list as it is now
SellReturn(tracked) ==
    IF ~asMain THEN <<"idle", 0>>
    ELSE IF idx < Len(tracked) THEN <<"sells", idx + 1>>
    ELSE <<"sleep", 0>>

\* an exception leaves the current call chain
Raise(kind) ==
    /\ pc' = IF asMain THEN "except" ELSE "idle"
    /\ idx' = 0
    /\ exc' = IF asMain THEN kind ELSE exc

\* an exception unwinds get_order and buy()/sell(): their locals are gone,
\* the order stays with the exchange
Abandoned(o, state, cancels) ==
    [NoOrder EXCEPT !.uuid = o.uuid, !.side = o.side, !.market = o.market,
                    !.state = state, !.cancels = cancels,
                    !.replied = o.replied]

NewOrder(uuid, side, coin_pair, quantity, price, held) ==
    [NoOrder EXCEPT !.uuid = uuid, !.side = side, !.market = coin_pair,
                    !.quantity = quantity, !.price = price, !.held = held,
                    !.limit = Seconds(trade_time_limit), !.state = "Placed"]

\* a strategy invocation that went past its ledger test and called the
\* exchange
Did(coin_pair, side, failed, placement, note) ==
    [market |-> coin_pair, side |-> side, evaluated |-> TRUE,
     summaryFailed |-> failed, placement |-> placement, note |-> note]

\* a strategy invocation that returned at its ledger test
Skipped(coin_pair, side) ==
    [NoLast EXCEPT !.market = coin_pair, !.side = side]

(* ------------------------------ main loop ------------------------------ *)

\* `while True: try: analyse_buys()`: the buy candidates are evaluated only
\* when the ledger is empty
StartCycle ==
    /\ pc = "loop"
    /\ Goto(IF Len(trackedCoinPairs) < 1 THEN <<"buys", 1>>
            ELSE SellsEntry(trackedCoinPairs))
    /\ handled' = NoHandled
    /\ last' = NoLast
    /\ UNCHANGED <<config, asMain, clock, trackedCoinPairs, trades, order,
                   nextUuid, exc>>

\* time.sleep(10) at the end of a cycle that raised nothing
Sleep ==
    /\ pc = "sleep"
    /\ clock + SleepInterval <= MaxClock
    /\ clock' = clock + SleepInterval
    /\ Goto(<<"loop", 0>>)
    /\ last' = NoLast
    /\ UNCHANGED <<config, asMain, trackedCoinPairs, trades, order, nextUuid,
                   exc, handled>>

\* the except clauses: print and log; KeyError, ValueError and Exception
\* call exit(), the others fall through to the next `while True` iteration
HandleException ==
    /\ pc = "except"
    /\ handled' = [kind |-> exc, at |-> clock]
    /\ exc' = "none"
    /\ Goto(IF IsFatal(exc) THEN <<"exited", 0>> ELSE <<"loop", 0>>)
    /\ last' = NoLast
    /\ UNCHANGED <<config, asMain, clock, trackedCoinPairs, trades, order,
                   nextUuid>>

(* ---------------------------- buy_strategy ----------------------------- *)

\* buy(): Bittrex.buy_limit, then store_initial_buy; get_order follows
buy(coin_pair, btc_quantity, price, failed) ==
    \/ \E err \in ExchangeErrors :
          /\ Raise(err)
          /\ last' = Did(coin_pair, "buy", failed, "raised", "none")
          /\ UNCHANGED <<trackedCoinPairs, order, nextUuid>>
    \/ \E buy_data \in [success : BOOLEAN] :
          IF ~PlacementOk(buy_data)
          THEN /\ Goto(BuyReturn(trackedCoinPairs))
               /\ last' = Did(coin_pair, "buy", failed, "failed", "none")
               /\ UNCHANGED <<trackedCoinPairs, order, nextUuid, exc>>
          ELSE /\ nextUuid <= MaxOrders
               /\ nextUuid' = IF buy_data.success THEN nextUuid + 1
                              ELSE nextUuid
               /\ trackedCoinPairs' =
                      store_initial_buy(trackedCoinPairs, coin_pair)
               /\ order' = NewOrder(nextUuid, "buy", coin_pair,
                                    btc_quantity \div price, price, NoTrade)
               /\ last' = Did(coin_pair, "buy", failed,
                               IF buy_data.success THEN "placed"
                               ELSE "failed", "none")
               /\ pc' = "get_order" /\ idx' = idx
               /\ UNCHANGED exc

buy_strategy(coin_pair) ==
    /\ \/ pc = "idle"
       \/ pc = "buys" /\ coin_pair = btc_coin_pairs[idx]
    /\ IF AlreadyTracked(coin_pair, trackedCoinPairs)
       THEN /\ Goto(BuyReturn(trackedCoinPairs))
            /\ last' = Skipped(coin_pair, "buy")
            /\ UNCHANGED <<trackedCoinPairs, order, nextUuid, exc>>
       ELSE \/ \E err \in ExchangeErrors :
                  \* get_historical_data or get_market_summary raises
                  /\ Raise(err)
                  /\ last' = Did(coin_pair, "buy", FALSE, "none", "none")
                  /\ UNCHANGED <<trackedCoinPairs, order, nextUuid>>
            \/ \E rsi \in RSIValues, day_volume \in Volumes,
                  current_buy_price \in AskPrices :
                  LET failed == day_volume = None \/ current_buy_price = None
                      check == check_buy_parameters(rsi, day_volume,
                                                    current_buy_price)
                  IN  CASE check = "TypeError" ->
                             /\ Raise("TypeError")
                             /\ last' = Did(coin_pair, "buy", failed, "none",
                                            "none")
                             /\ UNCHANGED <<trackedCoinPairs, order, nextUuid>>
                        [] check = "True" ->
                             buy(coin_pair, buy_params.btcAmount,
                                 current_buy_price, failed)
                        [] check = "False" ->
                             /\ Goto(BuyReturn(trackedCoinPairs))
                             /\ last' = Did(coin_pair, "buy", failed, "none",
                                    IF rsi # None /\ rsi <= NoBuyRsi
                                    THEN "no-buy" ELSE "none")
                             /\ UNCHANGED <<trackedCoinPairs, order, nextUuid,
                                            exc>>
    /\ UNCHANGED <<config, asMain, clock, trades, handled>>

\* buy() after get_order returned: store_buy and the notifications
buy_finish ==
    /\ pc = "buy_store"
    /\ trackedCoinPairs' = store_buy_tracked(trackedCoinPairs, order.market)
    /\ trades' = store_buy_trades(trades, order.market, order.quantity,
                                  order.price)
    /\ last' = Did(order.market, "buy", FALSE, "none", "buy")
    /\ order' = NoOrder
    /\ Goto(BuyReturn(trackedCoinPairs'))
    /\ UNCHANGED <<config, asMain, clock, nextUuid, exc, handled>>

(* ---------------------------- sell_strategy ---------------------------- *)

\* sell(): Database.get_open_trade, Bittrex.sell_limit; get_order follows
sell(coin_pair, price, failed) ==
    LET trade == trades[coin_pair] IN
    \/ \E err \in ExchangeErrors :
          /\ Raise(err)
          /\ last' = Did(coin_pair, "sell", failed, "raised", "none")
          /\ UNCHANGED <<order, nextUuid>>
    \/ \E sell_data \in [success : BOOLEAN] :
          IF ~PlacementOk(sell_data)
          THEN /\ Goto(SellReturn(trackedCoinPairs))
               /\ last' = Did(coin_pair, "sell", failed, "failed", "none")
               /\ UNCHANGED <<order, nextUuid, exc>>
          ELSE /\ nextUuid <= MaxOrders
               /\ nextUuid' = IF sell_data.success THEN nextUuid + 1
                              ELSE nextUuid
               /\ order' = NewOrder(nextUuid, "sell", coin_pair,
                                    trade.quantity, price, trade)
               /\ last' = Did(coin_pair, "sell", failed,
                               IF sell_data.success THEN "placed"
                               ELSE "failed", "none")
               /\ pc' = "get_order" /\ idx' = idx
               /\ UNCHANGED exc

sell_strategy(coin_pair) ==
    /\ \/ pc = "idle"
       \/ pc = "sells" /\ coin_pair = trackedCoinPairs[idx]
    /\ IF ~AlreadyTracked(coin_pair, trackedCoinPairs)
       THEN /\ Goto(SellReturn(trackedCoinPairs))
            /\ last' = Skipped(coin_pair, "sell")
            /\ UNCHANGED <<order, nextUuid, exc>>
       ELSE \/ \E err \in ExchangeErrors :
                  /\ Raise(err)
                  /\ last' = Did(coin_pair, "sell", FALSE, "none", "none")
                  /\ UNCHANGED <<order, nextUuid>>
            \/ \E rsi \in RSIValues, current_sell_price \in BidPrices :
                  IF current_sell_price = None
                        \/ trades[coin_pair] = NoTrade
                  THEN \* get_profit_margin subtracts from None
                       /\ Raise("TypeError")
                       /\ last' = Did(coin_pair, "sell",
                                      current_sell_price = None, "none",
                                      "none")
                       /\ UNCHANGED <<order, nextUuid>>
                  ELSE LET profit_margin ==
                               get_profit_margin(trades[coin_pair].price,
                                                 current_sell_price)
                       IN  IF check_sell_parameters(rsi, profit_margin)
                           THEN sell(coin_pair, current_sell_price, FALSE)
                           ELSE /\ Goto(SellReturn(trackedCoinPairs))
                                /\ last' = Did(coin_pair, "sell", FALSE,
                                       "none",
                                       IF rsi # None THEN "no-sell"
                                       ELSE "none")
                                /\ UNCHANGED <<order, nextUuid, exc>>
    /\ UNCHANGED <<config, asMain, clock, trackedCoinPairs, trades, handled>>

\* sell() after get_order returned: store_sell and the notifications
sell_finish ==
    /\ pc = "sell_store"
    /\ trackedCoinPairs' = store_sell_tracked(trackedCoinPairs, order.market)
    /\ trades' = store_sell_trades(trades, order.market)
    /\ last' = Did(order.market, "sell", FALSE, "none", "sell")
    /\ order' = NoOrder
    /\ Goto(SellReturn(trackedCoinPairs'))
    /\ UNCHANGED <<config, asMain, clock, nextUuid, exc, handled>>

(* ------------------------------ get_order ------------------------------ *)

\* Bittrex.get_order(order_uuid): the exchange answers with a snapshot that
\* carries the number of the query, or the call raises
Snapshot(open, seq) == [IsOpen |-> open, seq |-> seq]

\* start_time = time.time(); order_data = Bittrex.get_order(order_uuid)
get_order_start ==
    /\ pc = "get_order"
    /\ \/ \E open \in BOOLEAN :
             /\ order' = [order EXCEPT !.state = "Polling", !.start = clock,
                                       !.asked = 1, !.replied = open,
                                       !.data = Snapshot(open, 1)]
             /\ pc' = "poll" /\ idx' = idx
             /\ UNCHANGED exc
       \/ \E err \in ExchangeErrors :
             /\ order' = Abandoned(order, "Polling", 0)
             /\ Raise(err)
    /\ last' = NoLast
    /\ UNCHANGED <<config, asMain, clock, trackedCoinPairs, trades, nextUuid,
                   handled>>

\* one iteration of the while loop: time.sleep(10), then a status query
get_order_poll ==
    /\ pc = "poll"
    /\ LoopCond(clock, order.start, order.limit, order.data)
    /\ clock + PollInterval <= MaxClock
    /\ clock' = clock + PollInterval
    /\ \/ \E open \in BOOLEAN :
             /\ order' = [order EXCEPT
                    !.asked = @ + 1, !.replied = open,
                    !.data = PollUpdate(order.data,
                                        Snapshot(open, order.asked + 1))]
             /\ UNCHANGED <<pc, idx, exc>>
       \/ \E err \in ExchangeErrors :
             /\ order' = Abandoned(order, "Polling", 0)
             /\ Raise(err)
    /\ last' = NoLast
    /\ UNCHANGED <<config, asMain, trackedCoinPairs, trades, nextUuid, handled>>

\* the loop is left: cancel the order if the snapshot is still open, and
\* return the snapshot to buy() or sell()
get_order_end ==
    /\ pc = "poll"
    /\ ~LoopCond(clock, order.start, order.limit, order.data)
    /\ IF ShouldCancel(order.data, clock, order.start, order.limit)
       THEN \/ \E ack \in [success : BOOLEAN] :
                     /\ order' = [order EXCEPT !.state = "Cancelled",
                                    !.cancels = @ + 1, !.end = clock,
                                    !.ack = IF ack.success THEN "ok"
                                            ELSE "failed",
                                    !.ret = order.data]
                     /\ pc' = IF order.side = "buy" THEN "buy_store"
                              ELSE "sell_store"
                     /\ idx' = idx
                     /\ UNCHANGED exc
               \/ \E err \in ExchangeErrors :
                     /\ order' = Abandoned(order, "Cancelling",
                                                  order.cancels + 1)
                     /\ Raise(err)
       ELSE /\ order' = [order EXCEPT !.state = "Filled", !.end = clock,
                                      !.ret = order.data]
            /\ pc' = IF order.side = "buy" THEN "buy_store" ELSE "sell_store"
            /\ idx' = idx
            /\ UNCHANGED exc
    /\ last' = NoLast
    /\ UNCHANGED <<config, asMain, clock, trackedCoinPairs, trades, nextUuid,
                   handled>>

(* ---------------------------- specification ---------------------------- *)

Next ==
    \/ StartCycle
    \/ \E coin_pair \in Markets : buy_strategy(coin_pair)
    \/ buy_finish
    \/ \E coin_pair \in Markets : sell_strategy(coin_pair)
    \/ sell_finish
    \/ get_order_start
    \/ get_order_poll
    \/ get_order_end
    \/ Sleep
    \/ HandleException

Spec == Init /\ [][Next]_vars

(* --------------------------- calculate_RSI ----------------------------- *)

\* Python floats are modelled by exact fractions [n, d] in lowest terms
RECURSIVE GCD(_, _)
GCD(a, b) == IF b = 0 THEN a ELSE GCD(b, a % b)
Abs(x) == IF x < 0 THEN -x ELSE x
Norm(n, d) == LET g == GCD(Abs(n), d) IN [n |-> n \div g, d |-> d \div g]
Rat(k) == [n |-> k, d |-> 1]
RAdd(a, b) == Norm(a.n * b.d + b.n * a.d, a.d * b.d)
RSub(a, b) == Norm(a.n * b.d - b.n * a.d, a.d * b.d)
RMulInt(a, k) == Norm(a.n * k, a.d)
RDivInt(a, k) == Norm(a.n, a.d * k)
RDiv(a, b) ==
    LET g1 == GCD(Abs(a.n), b.n)
        g2 == GCD(a.d, b.d)
    IN  Norm((a.n \div g1) * (b.d \div g2), (a.d \div g2) * (b.n \div g1))
RLess(a, b) == a.n * b.d < b.n * a.d
RLeq(a, b) == a.n * b.d <= b.n * a.d

\* `return None`
NoRSI == Rat(None)

\* `i - closing_prices[count - 1]`, `close - closing_prices[count - 1]`
ChangeReversed(previous, close) == previous - close
Change(previous, close) == close - previous

\* first loop: the changes between the first 15 closes (fewer when the
\* history is shorter); count ends at min(len, 15)
SeedCount(closing_prices) ==
    IF Len(closing_prices) < 15 THEN Len(closing_prices) ELSE 15
Changes(closing_prices) ==
    [i \in 1..(IF SeedCount(closing_prices) = 0 THEN 0
               ELSE SeedCount(closing_prices) - 1) |->
        Change(closing_prices[i], closing_prices[i + 1])]

\* sum(advances), sum(declines)
RECURSIVE SumAdvances(_, _)
SumAdvances(change, i) ==
    IF i > Len(change) THEN 0
    ELSE (IF change[i] > 0 THEN change[i] ELSE 0) + SumAdvances(change, i + 1)
RECURSIVE SumDeclines(_, _)
SumDeclines(change, i) ==
    IF i > Len(change) THEN 0
    ELSE (IF change[i] < 0 THEN Abs(change[i]) ELSE 0)
         + SumDeclines(change, i + 1)

\* second loop: one smoothing step for each close after the 15th; count is
\* the number of closes consumed, avg = <<new_avg_gain, new_avg_loss>>
RECURSIVE Smooth(_, _, _)
Smooth(closing_prices, count, avg) ==
    IF 14 < count /\ count < Len(closing_prices)
    THEN LET new_change == Change(closing_prices[count],
                                  closing_prices[count + 1])
             add_gain == IF new_change > 0 THEN new_change ELSE 0
             add_loss == IF new_change < 0 THEN Abs(new_change) ELSE 0
         IN  Smooth(closing_prices, count + 1,
                    <<RDivInt(RAdd(RMulInt(avg[1], 13), Rat(add_gain)), 14),
                      RDivInt(RAdd(RMulInt(avg[2], 13), Rat(add_loss)), 14)>>)
    ELSE avg

\* new_rs = 100 - 100 / (1 + rs)
RSIFromRSAdded(rs) == RAdd(Rat(100), RDiv(Rat(100), RAdd(Rat(1), rs)))
RSIFromRS(rs) == RSub(Rat(100), RDiv(Rat(100), RAdd(Rat(1), rs)))

\* <<new_avg_gain, new_avg_loss>> when the loops are done
Averages(closing_prices) ==
    LET change == Changes(closing_prices)
        average_gain == RDivInt(Rat(SumAdvances(change, 1)), 14)
        average_loss == RDivInt(Rat(SumDeclines(change, 1)), 14)
    IN  Smooth(closing_prices, SeedCount(closing_prices),
               <<average_gain, average_loss>>)

\* `if new_avg_loss == 0: return None` guards `new_avg_gain / new_avg_loss`
LossIsZero(new_avg_loss) == new_avg_loss = Rat(0)

calculate_RSI(closing_prices) ==
    LET avg == Averages(closing_prices)
    IN  IF LossIsZero(avg[2]) THEN NoRSI
        ELSE RSIFromRS(RDiv(avg[1], avg[2]))

\* the exception calculate_RSI raises: the division is reached with a zero
\* divisor
RSIRaises(closing_prices) ==
    LET avg == Averages(closing_prices)
    IN  IF ~LossIsZero(avg[2]) /\ avg[2].n = 0 THEN "ZeroDivisionError"
        ELSE "none"

\* get_closing_prices: the histories the exchange returns here are a trend
\* line of slope -1, 0 or 1 with at most MaxBumps closes one unit above it
BasePrice == 30
Slopes == {-1, 0, 1}
History(n, slope, bumps) ==
    [i \in 1..n |-> BasePrice + slope * (i - 1)
                    + (IF i \in bumps THEN 1 ELSE 0)]
Histories ==
    {History(n, slope, bumps) :
        n \in 0..MaxCloses, slope \in Slopes,
        bumps \in {b \in SUBSET (1..MaxCloses) : Cardinality(b) <= MaxBumps}}

\* every variable of the main loop, at rest while a function is called on
\* its own
LoopAtRest ==
    /\ asMain = FALSE
    /\ pc = "idle"
    /\ idx = 0
    /\ clock = 0
    /\ trackedCoinPairs = <<>>
    /\ trades = [m \in Markets |-> NoTrade]
    /\ order = NoOrder
    /\ nextUuid = 1
    /\ exc = "none"
    /\ handled = NoHandled
    /\ last = NoLast

AtRest ==
    /\ buy_params = DefaultBuyParams
    /\ sell_params = DefaultSellParams
    /\ LoopAtRest

InitRSI ==
    /\ AtRest
    /\ call \in {[fn |-> "calculate_RSI", closing_prices |-> h] :
                    h \in Histories}
    /\ result = NoResult

CallRSI ==
    /\ call.fn = "calculate_RSI"
    /\ ~result.done
    /\ result' = [done |-> TRUE,
                  rsi |-> calculate_RSI(call.closing_prices),
                  raised |-> RSIRaises(call.closing_prices)]
    /\ UNCHANGED <<call, buy_params, sell_params, asMain, pc, idx, clock,
                   trackedCoinPairs, trades, order, nextUuid, exc, handled,
                   last>>

NextRSI == CallRSI

SpecRSI == InitRSI /\ [][NextRSI]_vars

(* -------------- check_buy_parameters, check_sell_parameters ------------ *)

\* buy_params / sell_params as the settings file may give them
BuyConfigs ==
    {[rsiThreshold |-> r, volumeThreshold |-> v, minimumUnitPrice |-> p,
      btcAmount |-> btcAmount] :
        r \in {buyRsiThreshold, buyRsiThreshold + 10},
        v \in {buyVolumeThreshold, buyVolumeThreshold + 100},
        p \in {minimumUnitPrice, minimumUnitPrice + 1}}
SellConfigs ==
    {[rsiThreshold |-> r, minProfitMarginThreshold |-> lo,
      profitMarginThreshold |-> hi] :
        r \in {sellRsiThreshold, sellRsiThreshold + 10},
        lo \in {minProfitMarginThreshold, minProfitMarginThreshold + 10},
        hi \in {profitMarginThreshold - 45, profitMarginThreshold}}

\* the arguments: each threshold, one unit below and one unit above it
BuyRsiArgs == {None, 20, 30, 31, 40, 41}
VolumeArgs == {None, 400, 500, 599, 600}
PriceArgs == {None, 1, 2, 3}
SellRsiArgs == {None, 69, 70, 79, 80}
ProfitMarginArgs == {-1, 0, 1, 5, 6, 10, 11, 50, 51}

BuyCalls ==
    {[fn |-> "check_buy_parameters", rsi |-> r, day_volume |-> v,
      current_buy_price |-> p, higher_price |-> h] :
        r \in BuyRsiArgs, v \in VolumeArgs, p \in PriceArgs,
        h \in PriceArgs \ {None}}
SellCalls ==
    {[fn |-> "check_sell_parameters", rsi |-> r, profit_margin |-> pm] :
        r \in SellRsiArgs, pm \in ProfitMarginArgs}

InitPolicy ==
    /\ LoopAtRest
    /\ buy_params \in BuyConfigs
    /\ sell_params \in SellConfigs
    /\ call \in BuyCalls \cup SellCalls
    /\ (call.fn = "check_buy_parameters" => sell_params = DefaultSellParams)
    /\ (call.fn = "check_sell_parameters" => buy_params = DefaultBuyParams)
    /\ result = NoResult

\* check_buy_parameters called with the arguments, and once more with the
\* other price
CallBuyPolicy ==
    /\ call.fn = "check_buy_parameters"
    /\ ~result.done
    /\ result' = [done |-> TRUE,
                  value |-> check_buy_parameters(call.rsi, call.day_volume,
                                                 call.current_buy_price),
                  at_higher |-> check_buy_parameters(call.rsi, call.day_volume,
                                                     call.higher_price)]
    /\ UNCHANGED <<call, buy_params, sell_params, asMain, pc, idx, clock,
                   trackedCoinPairs, trades, order, nextUuid, exc, handled,
                   last>>

CallSellPolicy ==
    /\ call.fn = "check_sell_parameters"
    /\ ~result.done
    /\ result' = [done |-> TRUE,
                  value |-> check_sell_parameters(call.rsi, call.profit_margin)]
    /\ UNCHANGED <<call, buy_params, sell_params, asMain, pc, idx, clock,
                   trackedCoinPairs, trades, order, nextUuid, exc, handled,
                   last>>

NextPolicy == CallBuyPolicy \/ CallSellPolicy

SpecPolicy == InitPolicy /\ [][NextPolicy]_vars

(* ------------------------------- claims -------------------------------- *)

Recoverable == {"ConnectionError", "JSONDecodeError"}
Returned == {"Filled", "Cancelled"}
LimitSeconds == trade_time_limit * 60

\* C1: a market enters the ledger only in a step of a buy whose order reached
\* Filled; a buy whose order was cancelled on timeout leaves the ledger
\* without a position for its market.
C1_PositionOnlyWhenBuyFilled ==
    [][\A m \in Markets :
          (m \notin Range(trackedCoinPairs) /\ m \in Range(trackedCoinPairs'))
          => (order.side = "buy" /\ order.market = m
              /\ order.state = "Filled")]_vars

\* C2: a market leaves the ledger, or its stored quantity and buy price
\* change, only in a step of a sell whose order reached Filled; a sell whose
\* order was cancelled on timeout leaves the position as it was.
C2_PositionRemovedOnlyWhenSellFilled ==
    [][\A m \in Markets :
          (m \in Range(trackedCoinPairs)
           /\ (m \notin Range(trackedCoinPairs') \/ trades'[m] # trades[m]))
          => (order.side = "sell" /\ order.market = m
              /\ order.state = "Filled")]_vars

C4_NotOpenMeansFilled ==
    /\ (order.state \in {"Filled", "Cancelled", "Cancelling"}
        /\ ~order.replied)
          => (order.state = "Filled" /\ order.cancels = 0)
    /\ (pc \in {"buy_store", "sell_store"} /\ ~order.replied)
          => order.state = "Filled"

C4_Witness ==
    /\ order.state = "Filled"
    /\ ~order.replied
    /\ order.cancels = 0
    /\ order.end - order.start > LimitSeconds

\* C5: a step that places a buy order places it for a market that has no
\* entry in the ledger.
C5_NoBuyWhileTracked ==
    [][(last'.side = "buy" /\ last'.placement = "placed")
          => last'.market \notin Range(trackedCoinPairs)]_vars

C5_Witness ==
    /\ last.side = "buy"
    /\ last.market \in Range(trackedCoinPairs)
    /\ last.placement = "none"
    /\ last.note = "none"

\* C6 as stated: every escaped exception that is neither a connectivity nor
\* a JSON decode error is logged and ends the process, and nothing runs after
\* the exit.
C6_UnrecoverableTerminates ==
    [][/\ (pc = "except" /\ exc \notin Recoverable)
             => (handled'.kind = exc /\ pc' = "exited")
       /\ pc = "exited" => FALSE]_vars

\* C6 amended: KeyError, ValueError and unclassified exceptions are logged
\* and end the process, nothing runs after the exit; a TypeError is logged
\* and the loop goes on to the next cycle.
C6_FatalTerminates ==
    [][/\ pc = "except" => handled'.kind = exc
       /\ (pc = "except" /\ exc \in {"KeyError", "ValueError", "Exception"})
             => pc' = "exited"
       /\ (pc = "except" /\ exc = "TypeError") => pc' = "loop"
       /\ pc = "exited" => FALSE]_vars

C6_Witness == pc = "exited" /\ handled.kind = "ValueError"

\* C7: a strategy step in which a summary fetch returned an absent value
\* places no order, raises nothing, and goes on to the next market of the
\* cycle.
C7_SummaryFailureSkipsMarket ==
    [][(asMain /\ pc \in {"buys", "sells"} /\ last'.summaryFailed)
          => /\ last'.placement = "none"
             /\ order' = order /\ nextUuid' = nextUuid
             /\ pc' # "except"
             /\ <<pc', idx'>> = IF pc = "buys"
                                THEN BuyReturn(trackedCoinPairs)
                                ELSE SellReturn(trackedCoinPairs)]_vars

\* C8: a connectivity or JSON decode error does not end the process, and
\* the cycle after it starts no earlier than one sleep interval after the
\* error was handled.
C8_RetryAfterSleep ==
    [][/\ (pc = "except" /\ exc \in Recoverable) => pc' = "loop"
       /\ (pc = "loop" /\ pc' # "loop" /\ handled.kind \in Recoverable)
             => clock >= handled.at + SleepInterval]_vars

\* C9: a step in which the exchange reports placement failure starts no
\* order lifecycle (no status query, no cancel), leaves the ledger as it
\* was, sends no buy or sell notification and returns to the caller.
C9_PlacementFailureDoesNothing ==
    [][last'.placement = "failed"
          => /\ order' = order
             /\ nextUuid' = nextUuid
             /\ pc' \notin {"get_order", "poll", "buy_store", "sell_store"}
             /\ trackedCoinPairs' = trackedCoinPairs
             /\ trades' = trades
             /\ last'.note = "none"
             /\ <<pc', idx'>> = IF last'.side = "buy"
                                THEN BuyReturn(trackedCoinPairs)
                                ELSE SellReturn(trackedCoinPairs)]_vars

C9_Witness ==
    /\ last.placement = "failed"
    /\ last.side = "sell"
    /\ last.market \in Range(trackedCoinPairs)
    /\ order = NoOrder

\* C10: whenever get_order has returned, Filled or Cancelled, with the
\* cancel acknowledged or refused, the value returned is the exchange's
\* answer to the most recent status query.
C10_ReturnsLastSnapshot ==
    order.state \in Returned
       => order.ret = Snapshot(order.replied, order.asked)

C10_Witness ==
    /\ order.state = "Cancelled"
    /\ order.ack = "failed"
    /\ order.asked > 1
    /\ order.ret = Snapshot(TRUE, order.asked)

\* C11: a sell_strategy step that gets as far as an exchange call, a sell
\* signal or a sell order is for a market whose position a buy has stored in
\* the ledger; for a market absent from the ledger it calls nothing, places
\* nothing and raises nothing.
C11_SellOnlyWithPosition ==
    [][last'.side = "sell" =>
          /\ last'.evaluated =>
                /\ last'.market \in Range(trackedCoinPairs)
                /\ trades[last'.market] # NoTrade
          /\ last'.market \notin Range(trackedCoinPairs) =>
                /\ ~last'.evaluated
                /\ last'.placement = "none" /\ last'.note = "none"
                /\ order' = order /\ nextUuid' = nextUuid
                /\ pc' # "except"]_vars

C11_Witness ==
    /\ last.side = "sell"
    /\ ~last.evaluated
    /\ last.market \notin Range(trackedCoinPairs)
    /\ trackedCoinPairs # <<>>

\* strictly increasing / constant / non-increasing close series
StrictlyIncreasing(closing_prices) ==
    \A i \in 1..(Len(closing_prices) - 1) :
        closing_prices[i] < closing_prices[i + 1]
Constant(closing_prices) ==
    \A i \in 1..(Len(closing_prices) - 1) :
        closing_prices[i] = closing_prices[i + 1]
HasDecline(closing_prices) ==
    \E i \in 1..(Len(closing_prices) - 1) :
        closing_prices[i] > closing_prices[i + 1]
Returned_RSI == call.fn = "calculate_RSI" /\ result.done

\* C12: calculate_RSI returns absent for every history of fewer than 15
\* closes, a history with a price decline included.
C12_ShortHistoryAbsent ==
    (Returned_RSI /\ Len(call.closing_prices) < 15) => result.rsi = NoRSI

\* C15: for a history of at least 15 closes that is strictly increasing or
\* constant calculate_RSI returns absent and raises no ZeroDivisionError.
C15_NoDeclineAbsent ==
    (/\ Returned_RSI
     /\ Len(call.closing_prices) >= 15
     /\ \/ StrictlyIncreasing(call.closing_prices)
        \/ Constant(call.closing_prices))
    => (result.rsi = NoRSI /\ result.raised = "none")

C15_Witness ==
    /\ Returned_RSI
    /\ Len(call.closing_prices) > 15
    /\ StrictlyIncreasing(call.closing_prices)
    /\ result.rsi = NoRSI

Returned_Sell == call.fn = "check_sell_parameters" /\ result.done
Returned_Buy == call.fn = "check_buy_parameters" /\ result.done

\* C13: check_sell_parameters is true exactly when (rsi is present, rsi is at
\* least the sell RSI threshold and the profit margin is above the minimum
\* profit margin) or the profit margin is above the profit-margin threshold;
\* with rsi absent a profit margin equal to that threshold gives false and
\* every larger one gives true.
C13_SellRule ==
    Returned_Sell =>
       LET rsi == call.rsi
           profitMargin == call.profit_margin
           sellRsiMin == sell_params.rsiThreshold
           sellMinProfitMarginMin == sell_params.minProfitMarginThreshold
           sellProfitMarginMin == sell_params.profitMarginThreshold
       IN  /\ result.value
                <=> \/ /\ rsi # None
                       /\ rsi >= sellRsiMin
                       /\ profitMargin > sellMinProfitMarginMin
                    \/ profitMargin > sellProfitMarginMin
           /\ (rsi = None /\ profitMargin = sellProfitMarginMin)
                 => ~result.value
           /\ profitMargin > sellProfitMarginMin => result.value

C13_Witness ==
    /\ Returned_Sell
    /\ call.rsi = None
    /\ call.profit_margin = sell_params.profitMarginThreshold
    /\ ~result.value

\* C14: check_buy_parameters is true exactly when rsi is present and at most
\* the buy RSI threshold, the 24-hour volume is at least the volume threshold
\* and the ask price is above the minimum unit price; a true result stays
\* true at every higher ask price, and the result is never true with rsi
\* absent.
C14_BuyRule ==
    Returned_Buy =>
       LET rsi == call.rsi
           volume24h == call.day_volume
           askPrice == call.current_buy_price
           holds == /\ rsi # None
                    /\ rsi <= buy_params.rsiThreshold
                    /\ volume24h # None
                    /\ volume24h >= buy_params.volumeThreshold
                    /\ askPrice # None
                    /\ askPrice > buy_params.minimumUnitPrice
       IN  /\ result.value = "True" <=> holds
           /\ (/\ result.value = "True"
               /\ call.higher_price >= askPrice) => result.at_higher = "True"
           /\ rsi = None => result.value = "False"

C14_Witness ==
    /\ Returned_Buy
    /\ result.value = "False"
    /\ call.current_buy_price = buy_params.minimumUnitPrice
    /\ call.higher_price > call.current_buy_price
    /\ result.at_higher = "True"

\* C17: in every state of a main-loop run the ledger holds at most one
\* market, also when several markets satisfy the buy rule in one cycle.
C17_AtMostOnePosition ==
    asMain => Len(trackedCoinPairs) <= 1

\* C18: no main-loop run goes on to a later cycle with a placed order that no
\* status query has reported as not open and for which no cancel was issued,
\* also when a status query raises a connectivity error during polling.
C18_NoOrderLeftOpen ==
    (asMain /\ pc \in {"loop", "buys", "sells", "sleep"})
    => (order.state \in {"Placed", "Polling"} => order.cancels > 0)

\* C19: when a sell_strategy invocation of analyse_sells returns and the
\* ledger it started with holds a further market, the next step of the pass
\* is the sell_strategy invocation for that market, also when this
\* invocation has removed its own market from trackedCoinPairs.
C19_EveryTrackedMarketVisited ==
    [][(/\ asMain
        /\ pc \in {"sells", "sell_store"}
        /\ pc' \notin {"get_order", "poll", "sell_store", "except"}
        /\ idx < Len(trackedCoinPairs))
       => (/\ pc' = "sells"
           /\ idx' <= Len(trackedCoinPairs')
           /\ trackedCoinPairs'[idx'] = trackedCoinPairs[idx + 1])]_vars

====
